---- MODULE Spec2Model ----
(***************************************************************************)
(* A model of taxcalc/filings/base/filing.py: class Filing, a collection   *)
(* of forms for one filer and year, and its bridge between per-form field  *)
(* storage and the flat composite-keyed store of FormMapper.               *)
(*                                                                         *)
(* Python strings are sequences of one-character strings, so that the      *)
(* composite keys "form_id/field_key" are really built by concatenation   *)
(* and really parsed by str.split('/').  Python dicts are functions.       *)
(* Rvar names are only ever used as dict keys and are plain TLA+ strings.  *)
(***************************************************************************)
EXTENDS Integers, Sequences, FiniteSets, TLC

(***************************************************************************)
(* Bounds of the model.                                                    *)
(***************************************************************************)
\* number of Form objects constructed during one behaviour
MaxObjs == 2

(***************************************************************************)
(* Strings.                                                                *)
(***************************************************************************)
Sep == "/"

\* {}: the dict with no keys
EmptyDict == [k \in {} |-> k]

\* str(n) for an int n >= 0: its decimal digits
DigitChars == <<"0", "1", "2", "3", "4", "5", "6", "7", "8", "9">>

RECURSIVE Str(_)
Str(n) == IF n < 10 THEN <<DigitChars[n + 1]>>
          ELSE Str(n \div 10) \o <<DigitChars[(n % 10) + 1]>>

\* number of separators in s
NumSep(s) == Cardinality({i \in 1..Len(s) : s[i] = Sep})

\* s.split('/', 1): cut at the first separator only
SplitFirst(s) ==
  IF \A i \in 1..Len(s) : s[i] # Sep
  THEN <<s>>
  ELSE LET i == CHOOSE i \in 1..Len(s) :
                  s[i] = Sep /\ \A j \in 1..(i - 1) : s[j] # Sep
       IN  <<SubSeq(s, 1, i - 1), SubSeq(s, i + 1, Len(s))>>

\* s.split('/'): cut at EVERY separator; always at least one part
RECURSIVE split(_)
split(s) ==
  IF \A i \in 1..Len(s) : s[i] # Sep
  THEN <<s>>
  ELSE LET i == CHOOSE i \in 1..Len(s) :
                  s[i] = Sep /\ \A j \in 1..(i - 1) : s[j] # Sep
       IN  <<SubSeq(s, 1, i - 1)>> \o split(SubSeq(s, i + 1, Len(s)))

\* "form_id, field_key = form_field_key.split('/')" succeeds exactly when
\* the split has two parts; otherwise the unpacking raises ValueError
Unpacks(key) == Len(split(key)) = 2

\* form_id + '/' + field_key
CompositeKey(form_id, field_key) == form_id \o <<Sep>> \o field_key

(***************************************************************************)
(* The environment: filer ids, years, form ids, field keys, values.        *)
(***************************************************************************)
FilerIds == {7, 12}
Years == {2013, 2014}

\* the (filer_id, year) pairs a Filing is constructed with
Filings == {<<7, 2013>>, <<12, 2014>>}

A == <<"A">>
B == <<"B">>
C == <<"C">>
x == <<"x">>
y == <<"y">>
xy == <<"x", "/", "y">>

V0 == <<"0">>
V1 == <<"1">>
V7 == <<"7">>

\* ids of the form classes a caller can instantiate
FormIds == {A, B}

\* field mappings of the forms a caller hands to add_form; Form puts no
\* restriction on a field key, so one of them contains the separator
InputFields == {EmptyDict, (x :> V7), (xy :> V7)}

\* Python's d[k] = v
DictSet(d, k, v) == (k :> v) @@ d

\* Python's d.update(e)
DictUpdate(d, e) == e @@ d

Range(f) == {f[k] : k \in DOMAIN f}

(***************************************************************************)
(* Class-level configuration of a concrete Filing type.                    *)
(*   FORM_CLASSES_BY_ID  the registry, as the ids in dict order; the form  *)
(*                       class registered under an id has that form_id()   *)
(*   READ_MAP, WRITE_MAP the declarations of the FormMapper base, as       *)
(*                       <<rvar, composite key>> pairs in dict order;      *)
(*                       FormMapper.fields_read / fields_written are the   *)
(*                       composite keys of these pairs                     *)
(* The reserved rvar names are distinct, as the configuration requires.    *)
(***************************************************************************)
FILER_ID_RVAR == "RECID"
FILING_YEAR_RVAR == "FLPDYR"
WEIGHT_RVAR == "s006"
ReservedRvars == {FILER_ID_RVAR, FILING_YEAR_RVAR, WEIGHT_RVAR}

\* a well-formed filing type; one read rvar collides with a reserved name
WellFormed ==
  [FORM_CLASSES_BY_ID |-> <<A, B>>,
   READ_MAP  |-> << <<"r1", CompositeKey(A, y)>>,
                    <<FILER_ID_RVAR, CompositeKey(B, x)>> >>,
   WRITE_MAP |-> << <<"w1", CompositeKey(A, y)>>,
                    <<"w2", CompositeKey(B, x)>> >>]

\* the filing writes a field of a form that is not in its registry
Unregistered ==
  [FORM_CLASSES_BY_ID |-> <<A, B>>,
   READ_MAP  |-> << <<"r1", CompositeKey(C, x)>> >>,
   WRITE_MAP |-> << <<"w1", CompositeKey(C, x)>> >>]

\* declarations that are not of the composite shape
Malformed ==
  [FORM_CLASSES_BY_ID |-> <<A, B>>,
   READ_MAP  |-> << <<"r1", CompositeKey(A, xy)>> >>,
   WRITE_MAP |-> << <<"w1", A>> >>]

Configs == {WellFormed, Unregistered, Malformed}

(***************************************************************************)
(* Form (taxcalc.filings, not part of filing.py).                          *)
(***************************************************************************)
\* field key written by a form class for an rvar: rvar -> field key
FormWriteMap(form_id) ==
  IF form_id = A THEN ("wa" :> x)
  ELSE IF form_id = B THEN ("wb" :> y)
  ELSE EmptyDict

\* form_class.fields_written(year)
FormFieldsWritten(form_id) == Range(FormWriteMap(form_id))

\* form_class(year, filer_id=filer_id): a form with no field set
NewForm(form_id, yr, fid, oid) ==
  [oid |-> oid, form_id |-> form_id, filer_id |-> fid, year |-> yr,
   fields |-> EmptyDict]

\* form.is_empty
is_empty(form) == DOMAIN form.fields = {}

\* form.set_field(field_key, value)
set_field(form, field_key, value) ==
  [form EXCEPT !.fields = DictSet(@, field_key, value)]

\* form.write_rvars(data): the form takes the rvars of its own write map
FormWriteRvars(form, data) ==
  LET m == FormWriteMap(form.form_id)
      rs == DOMAIN m \cap DOMAIN data
  IN  [form EXCEPT !.fields =
         DictUpdate(@, [k \in {m[r] : r \in rs} |->
                          data[CHOOSE r \in rs : m[r] = k]])]

\* taxcalc.utils.update_dict_ex(d, key, value): insert or fail
update_dict_ex(d, key, value) ==
  IF key \in DOMAIN d
  THEN [forms |-> d, err |-> "DuplicateKey"]
  ELSE [forms |-> DictSet(d, key, value), err |-> "ok"]

(***************************************************************************)
(* State of one Filing and of its caller.                                  *)
(***************************************************************************)
VARIABLES
  cfg,       \* the class-level configuration of the concrete Filing type
  filer_id,  \* self._filer_id
  year,      \* self._year
  forms,     \* self._forms: form id -> Form
  nextOid,   \* identity of the next Form object constructed
  pc,        \* position inside write_rvars_with_forms, "idle" between calls
  data,      \* the rvar dict of the running write_rvars_with_forms call
  prev,      \* self._forms when the last call started
  last,      \* the last call: its name and how it ended
  arg,       \* the argument of the last call
  ret        \* the value the last call returned

vars == <<cfg, filer_id, year, forms, nextOid, pc, data, prev, last, arg, ret>>

None == "None"

(***************************************************************************)
(* Filing: class-level introspection.                                      *)
(***************************************************************************)
\* the result of grouping composite keys by form id; ValueError when the
\* unpacking of one split fails (lines 24-28 and 35-39)
GroupByForm(pairs) ==
  LET keys == {pairs[i][2] : i \in 1..Len(pairs)}
  IN  IF \E k \in keys : ~Unpacks(k)
      THEN [err |-> "ValueError", val |-> EmptyDict]
      ELSE [err |-> "ok",
            val |-> [form_id \in {split(k)[1] : k \in keys} |->
                       {split(k)[2] : k \in {k2 \in keys :
                                               split(k2)[1] = form_id}}]]

fields_read(c) == GroupByForm(c.READ_MAP)

fields_written(c) == GroupByForm(c.WRITE_MAP)

\* fields_written_with_forms: one entry per registered form class, then the
\* filing's own fields merged in; results[form_id] raises KeyError for a
\* form id that is not registered
fields_written_with_forms(c) ==
  LET registered == Range(c.FORM_CLASSES_BY_ID)
      own == fields_written(c)
  IN  IF own.err # "ok" THEN own
      ELSE IF \E form_id \in DOMAIN own.val : form_id \notin registered
      THEN [err |-> "KeyError", val |-> EmptyDict]
      ELSE [err |-> "ok",
            val |-> [form_id \in registered |->
                       FormFieldsWritten(form_id) \cup
                       (IF form_id \in DOMAIN own.val
                        THEN own.val[form_id] ELSE {})]]

(***************************************************************************)
(* Filing: form lifecycle.  Each operator takes the forms dict and gives   *)
(* the dict afterwards and the exception raised, if any.                   *)
(***************************************************************************)
AddFormOverwrite(fs, form) ==
  IF form.filer_id # filer_id THEN [forms |-> fs, err |-> "FilerMismatch"]
  ELSE IF form.year # year THEN [forms |-> fs, err |-> "YearMismatch"]
  ELSE [forms |-> DictSet(fs, form.form_id, form), err |-> "ok"]

AddFormNoFilerCheck(fs, form) ==
  IF form.year # year THEN [forms |-> fs, err |-> "YearMismatch"]
  ELSE update_dict_ex(fs, form.form_id, form)

AddFormYearFirst(fs, form) ==
  IF form.year # year THEN [forms |-> fs, err |-> "YearMismatch"]
  ELSE IF form.filer_id # filer_id
  THEN [forms |-> fs, err |-> "FilerMismatch"]
  ELSE update_dict_ex(fs, form.form_id, form)

add_form(fs, form) ==
  IF form.filer_id # filer_id THEN [forms |-> fs, err |-> "FilerMismatch"]
  ELSE IF form.year # year THEN [forms |-> fs, err |-> "YearMismatch"]
  ELSE update_dict_ex(fs, form.form_id, form)

DropNonEmptyForms(fs) ==
  [form_id \in {k \in DOMAIN fs : is_empty(fs[k])} |-> fs[form_id]]

drop_empty_forms(fs) ==
  [form_id \in {k \in DOMAIN fs : ~is_empty(fs[k])} |-> fs[form_id]]

\* the fields fill_inputs sets on the held form form_id
FilledFields(fs, form_id, declared) ==
  IF form_id \in DOMAIN declared THEN declared[form_id] ELSE {}

FillInputsAllFields(fs) ==
  LET declared == fields_read(cfg)
  IN  IF declared.err # "ok" THEN [forms |-> fs, err |-> declared.err]
      ELSE [forms |-> [form_id \in DOMAIN fs |->
                         [fs[form_id] EXCEPT !.fields =
                            [k \in DOMAIN @ \cup
                                   FilledFields(fs, form_id, declared.val)
                               |-> V0]]],
            err |-> "ok"]

fill_inputs(fs) ==
  LET declared == fields_read(cfg)
  IN  IF declared.err # "ok" THEN [forms |-> fs, err |-> declared.err]
      ELSE [forms |-> [form_id \in DOMAIN fs |->
                         [fs[form_id] EXCEPT !.fields =
                            DictUpdate(@,
                              [k \in FilledFields(fs, form_id, declared.val)
                                 |-> V0])]],
            err |-> "ok"]

\* the loop of ensure_written_forms_available over the form ids ids[i..]
RECURSIVE EnsureLoop(_, _, _, _)
EnsureLoop(ids, i, fs, oid) ==
  IF i > Len(ids) THEN [forms |-> fs, err |-> "ok", oid |-> oid]
  ELSE IF ids[i] \in DOMAIN fs THEN EnsureLoop(ids, i + 1, fs, oid)
  ELSE LET new_form == NewForm(ids[i], year, filer_id, oid)
           r == add_form(fs, new_form)
       IN  IF r.err # "ok"
           THEN [forms |-> r.forms, err |-> r.err, oid |-> oid + 1]
           ELSE EnsureLoop(ids, i + 1, r.forms, oid + 1)

RECURSIVE EnsureLoopNoCheck(_, _, _, _)
EnsureLoopNoCheck(ids, i, fs, oid) ==
  IF i > Len(ids) THEN [forms |-> fs, err |-> "ok", oid |-> oid]
  ELSE LET new_form == NewForm(ids[i], year, filer_id, oid)
           r == add_form(fs, new_form)
       IN  IF r.err # "ok"
           THEN [forms |-> r.forms, err |-> r.err, oid |-> oid + 1]
           ELSE EnsureLoopNoCheck(ids, i + 1, r.forms, oid + 1)

EnsureAlwaysCreates(fs, oid) ==
  LET written == fields_written_with_forms(cfg)
  IN  IF written.err # "ok"
      THEN [forms |-> fs, err |-> written.err, oid |-> oid]
      ELSE EnsureLoopNoCheck(cfg.FORM_CLASSES_BY_ID, 1, fs, oid)

EnsureCreatesNothing(fs, oid) ==
  LET written == fields_written_with_forms(cfg)
  IN  [forms |-> fs, err |-> written.err, oid |-> oid]

\* the dict fields_written_with_forms returns is iterated in the order of
\* the registry, which filled it
ensure_written_forms_available(fs, oid) ==
  LET written == fields_written_with_forms(cfg)
  IN  IF written.err # "ok"
      THEN [forms |-> fs, err |-> written.err, oid |-> oid]
      ELSE EnsureLoop(cfg.FORM_CLASSES_BY_ID, 1, fs, oid)

(***************************************************************************)
(* Filing: the store handed to FormMapper.                                 *)
(***************************************************************************)
\* the (form id, field key) pairs of the held forms
FieldPairs(fs) ==
  UNION {{<<form_id, k>> : k \in DOMAIN fs[form_id].fields} :
           form_id \in DOMAIN fs}

ReadStoreSwapped(fs) ==
  [ck \in {CompositeKey(p[2], p[1]) : p \in FieldPairs(fs)} |->
     LET p == CHOOSE q \in FieldPairs(fs) : CompositeKey(q[2], q[1]) = ck
     IN  fs[p[1]].fields[p[2]]]

\* the dict comprehension of _read_store; the form ids of this model hold
\* no separator, so no two pairs give the same composite key
_read_store(fs) ==
  [ck \in {CompositeKey(p[1], p[2]) : p \in FieldPairs(fs)} |->
     LET p == CHOOSE q \in FieldPairs(fs) : CompositeKey(q[1], q[2]) = ck
     IN  fs[p[1]].fields[p[2]]]

\* d.items() of a dict whose insertion order the model does not keep
RECURSIVE Items(_)
Items(d) ==
  IF DOMAIN d = {} THEN <<>>
  ELSE LET k == CHOOSE k \in DOMAIN d : TRUE
       IN  <<<<k, d[k]>>>> \o Items([j \in DOMAIN d \ {k} |-> d[j]])

\* the loop of _write_store over items[i..]: the unpacking of the split
\* raises ValueError, self._forms[form_id] raises KeyError, and what was
\* written before the failure stays written
RECURSIVE WriteLoop(_, _, _)
WriteLoop(items, i, fs) ==
  IF i > Len(items) THEN [forms |-> fs, err |-> "ok"]
  ELSE LET parts == split(items[i][1])
       IN  IF Len(parts) # 2 THEN [forms |-> fs, err |-> "ValueError"]
           ELSE IF parts[1] \notin DOMAIN fs
           THEN [forms |-> fs, err |-> "KeyError"]
           ELSE WriteLoop(items, i + 1,
                  [fs EXCEPT ![parts[1]] =
                     set_field(@, parts[2], items[i][2])])

_write_store(fs, items) == WriteLoop(items, 1, fs)

(***************************************************************************)
(* FormMapper (taxcalc.filings.util, not part of filing.py): the generic   *)
(* read and write of rvars through the store.                              *)
(***************************************************************************)
\* FormMapper.read_rvars: every read rvar whose composite key is in the store
BaseReadRvars(fs) ==
  LET store == _read_store(fs)
      m == cfg.READ_MAP
      found == {i \in 1..Len(m) : m[i][2] \in DOMAIN store}
  IN  [r \in {m[i][1] : i \in found} |->
         store[m[CHOOSE i \in found : m[i][1] = r][2]]]

\* FormMapper.write_rvars: the items it hands to _write_store, one for
\* every write rvar present in data
BaseWriteItems(d) ==
  LET sel == SelectSeq(cfg.WRITE_MAP, LAMBDA pair : pair[1] \in DOMAIN d)
  IN  [i \in 1..Len(sel) |-> <<sel[i][2], d[sel[i][1]]>>]

(***************************************************************************)
(* Filing: rvar exchange.                                                  *)
(***************************************************************************)
ReadRvarsBaseWins(fs) ==
  DictUpdate((FILER_ID_RVAR :> Str(filer_id)) @@
             (FILING_YEAR_RVAR :> Str(year)) @@
             (WEIGHT_RVAR :> V1),
             BaseReadRvars(fs))

read_rvars(fs) ==
  DictUpdate(BaseReadRvars(fs),
             (FILER_ID_RVAR :> Str(filer_id)) @@
             (FILING_YEAR_RVAR :> Str(year)) @@
             (WEIGHT_RVAR :> V1))

\* self.write_rvars(data) of write_rvars_with_forms (line 232)
write_rvars(fs, d) == _write_store(fs, BaseWriteItems(d))

\* the loop over self._forms.values() of write_rvars_with_forms
write_forms(fs, d) ==
  [form_id \in DOMAIN fs |-> FormWriteRvars(fs[form_id], d)]

(***************************************************************************)
(* What the caller passes in.                                              *)
(***************************************************************************)
\* the rvar dict handed to write_rvars_with_forms: one rvar the filing
\* writes and one for each form class; the filing's rvar "w2" is absent
RvarData == {("w1" :> V1) @@ ("wa" :> V1) @@ ("wb" :> V1)}

\* composite keys handed to _write_store directly: well formed (naming a
\* form that may be missing), with two separators, with none, and with an
\* empty field key
DataKeys == {CompositeKey(A, x), CompositeKey(B, y), CompositeKey(A, xy), A,
             CompositeKey(A, <<>>)}

\* the dicts handed to _write_store directly, as items in insertion order:
\* every key alone, and pairs in which the second item fails after the
\* first was written
DataDicts ==
  {<< <<k, V1>> >> : k \in DataKeys}
    \cup {<< <<CompositeKey(A, x), V1>>, <<k, V1>> >> :
            k \in {CompositeKey(B, y), CompositeKey(A, xy)}}

(***************************************************************************)
(* The state after Filing(year, filer_id).                                 *)
(***************************************************************************)
Init ==
  /\ cfg \in Configs
  /\ \E f \in Filings : filer_id = f[1] /\ year = f[2]
  /\ forms = EmptyDict
  /\ nextOid = 1
  /\ pc = "idle"
  /\ data = EmptyDict
  /\ prev = EmptyDict
  /\ last = [op |-> "__init__", out |-> "ok"]
  /\ arg = None
  /\ ret = None

(***************************************************************************)
(* The calls.                                                              *)
(***************************************************************************)
\* the effect of add_form(form) whose outcome is r
AddFormStep(form, r) ==
  /\ r.err = "ok" => nextOid <= MaxObjs
  /\ forms' = r.forms
  /\ nextOid' = IF r.err = "ok" THEN nextOid + 1 ELSE nextOid
  /\ last' = [op |-> "add_form", out |-> r.err]
  /\ arg' = form

\* add_form(form); the forms of another filer or year all carry one field
AddForm ==
  /\ pc = "idle"
  /\ \E form_id \in FormIds, fid \in FilerIds, yr \in Years,
        fields \in InputFields :
       LET form == [oid |-> nextOid, form_id |-> form_id, filer_id |-> fid,
                    year |-> yr, fields |-> fields]
           r == add_form(forms, form)
       IN  /\ (fid # filer_id \/ yr # year) => fields = (x :> V7)
           /\ AddFormStep(form, r)
  /\ prev' = forms
  /\ ret' = None
  /\ UNCHANGED <<cfg, filer_id, year, pc, data>>

DropEmptyForms ==
  /\ pc = "idle"
  /\ forms' = drop_empty_forms(forms)
  /\ prev' = forms
  /\ last' = [op |-> "drop_empty_forms", out |-> "ok"]
  /\ arg' = None
  /\ ret' = None
  /\ UNCHANGED <<cfg, filer_id, year, nextOid, pc, data>>

FillInputs ==
  /\ pc = "idle"
  /\ LET r == fill_inputs(forms)
     IN  /\ forms' = r.forms
         /\ last' = [op |-> "fill_inputs", out |-> r.err]
  /\ prev' = forms
  /\ arg' = None
  /\ ret' = None
  /\ UNCHANGED <<cfg, filer_id, year, nextOid, pc, data>>

EnsureWrittenFormsAvailable ==
  /\ pc = "idle"
  /\ LET r == ensure_written_forms_available(forms, nextOid)
     IN  /\ r.oid <= MaxObjs + 1
         /\ forms' = r.forms
         /\ nextOid' = r.oid
         /\ last' = [op |-> "ensure_written_forms_available", out |-> r.err]
  /\ prev' = forms
  /\ arg' = None
  /\ ret' = None
  /\ UNCHANGED <<cfg, filer_id, year, pc, data>>

\* write_rvars_with_forms(data), line 231: ensure_written_forms_available
WriteRvarsEnsure ==
  /\ pc = "idle"
  /\ \E d \in RvarData :
       LET r == ensure_written_forms_available(forms, nextOid)
       IN  /\ r.oid <= MaxObjs + 1
           /\ forms' = r.forms
           /\ nextOid' = r.oid
           /\ data' = IF r.err = "ok" THEN d ELSE EmptyDict
           /\ pc' = IF r.err = "ok" THEN "write_rvars" ELSE "idle"
           /\ last' = [op |-> "write_rvars_with_forms", out |-> r.err]
           /\ arg' = d
  /\ prev' = forms
  /\ ret' = None
  /\ UNCHANGED <<cfg, filer_id, year>>

\* write_rvars_with_forms(data), line 232: self.write_rvars(data)
WriteRvarsOwn ==
  /\ pc = "write_rvars"
  /\ LET r == write_rvars(forms, data)
     IN  /\ forms' = r.forms
         /\ data' = IF r.err = "ok" THEN data ELSE EmptyDict
         /\ pc' = IF r.err = "ok" THEN "form.write_rvars" ELSE "idle"
         /\ last' = [last EXCEPT !.out = r.err]
  /\ UNCHANGED <<cfg, filer_id, year, nextOid, prev, arg, ret>>

\* write_rvars_with_forms(data), lines 233-234: form.write_rvars(data)
WriteRvarsForms ==
  /\ pc = "form.write_rvars"
  /\ forms' = write_forms(forms, data)
  /\ data' = EmptyDict
  /\ pc' = "idle"
  /\ UNCHANGED <<cfg, filer_id, year, nextOid, prev, last, arg, ret>>

ReadRvars ==
  /\ pc = "idle"
  /\ ret' = read_rvars(forms)
  /\ prev' = forms
  /\ last' = [op |-> "read_rvars", out |-> "ok"]
  /\ arg' = None
  /\ UNCHANGED <<cfg, filer_id, year, forms, nextOid, pc, data>>

\* _write_store(data) with a dict of the caller
WriteStore ==
  /\ pc = "idle"
  /\ \E d \in DataDicts :
       LET r == _write_store(forms, d)
       IN  /\ forms' = r.forms
           /\ last' = [op |-> "_write_store", out |-> r.err]
           /\ arg' = d
  /\ prev' = forms
  /\ ret' = None
  /\ UNCHANGED <<cfg, filer_id, year, nextOid, pc, data>>

\* _write_store(_read_store())
RoundTrip ==
  /\ pc = "idle"
  /\ LET store == _read_store(forms)
         r == _write_store(forms, Items(store))
     IN  /\ forms' = r.forms
         /\ last' = [op |-> "round_trip", out |-> r.err]
         /\ arg' = store
  /\ prev' = forms
  /\ ret' = None
  /\ UNCHANGED <<cfg, filer_id, year, nextOid, pc, data>>

Next ==
  \/ AddForm
  \/ DropEmptyForms
  \/ FillInputs
  \/ EnsureWrittenFormsAvailable
  \/ WriteRvarsEnsure
  \/ WriteRvarsOwn
  \/ WriteRvarsForms
  \/ ReadRvars
  \/ WriteStore
  \/ RoundTrip

Spec == Init /\ [][Next]_vars

(***************************************************************************)
(* Properties.                                                             *)
(***************************************************************************)
IsAddForm == last.op = "add_form"

\* C1: in every reachable state, failed calls included, every held form has
\* the filing's filer_id and year and is stored under its own form_id().
C1_FormsShareFilerAndYear ==
  \A k \in DOMAIN forms :
    /\ forms[k].filer_id = filer_id
    /\ forms[k].year = year
    /\ forms[k].form_id = k

\* both forms held, one of them created by the filing, after a rejected
\* add_form
C1_Witness ==
  /\ IsAddForm
  /\ last.out = "FilerMismatch"
  /\ DOMAIN forms = {A, B}

\* C2 as stated: a form of another filer raises the filer mismatch, a form
\* of another year raises the year mismatch, and the forms stay as they were.
C2_Original ==
  IsAddForm =>
    /\ arg.filer_id # filer_id => last.out = "FilerMismatch"
    /\ arg.year # year => last.out = "YearMismatch"
    /\ (arg.filer_id # filer_id \/ arg.year # year) => forms = prev

\* C2 amended: a form of another filer raises the filer mismatch (whatever
\* its year); a form of the filing's filer and of another year raises the
\* year mismatch; in both cases the forms stay exactly as they were, whether
\* or not the form's id is held.
C2_MismatchRejected ==
  IsAddForm =>
    /\ arg.filer_id # filer_id => last.out = "FilerMismatch"
    /\ (arg.filer_id = filer_id /\ arg.year # year)
         => last.out = "YearMismatch"
    /\ (arg.filer_id # filer_id \/ arg.year # year) => forms = prev

\* a form wrong in both filer and year, whose id is already held
C2_Witness ==
  /\ IsAddForm
  /\ arg.filer_id # filer_id
  /\ arg.year # year
  /\ arg.form_id \in DOMAIN forms

\* C3: add_form of a matching form whose id is already held raises the
\* duplicate failure and the form held under that id is still the first.
C3_DuplicateRejected ==
  (/\ IsAddForm
   /\ arg.filer_id = filer_id
   /\ arg.year = year
   /\ arg.form_id \in DOMAIN prev)
    => /\ last.out = "DuplicateKey"
       /\ forms = prev
       /\ forms[arg.form_id].oid # arg.oid

\* a second form with a held id and other fields than the first was offered
C3_Witness ==
  /\ IsAddForm
  /\ last.out = "DuplicateKey"
  /\ arg.fields # forms[arg.form_id].fields

IsWriteRvarsWithForms == last.op = "write_rvars_with_forms"

\* C4: when the filing's own write runs, after the ensure step, every form
\* id of fields_written_with_forms is held and the own write meets no
\* missing form; when the call has returned, the forms the ensure step
\* created hold what the per-form write gave them.
C4_EnsureThenOwnThenForms ==
  /\ pc = "write_rvars" =>
       /\ \A i \in 1..Len(cfg.FORM_CLASSES_BY_ID) :
            cfg.FORM_CLASSES_BY_ID[i] \in DOMAIN forms
       /\ \A i \in 1..Len(cfg.WRITE_MAP) :
            \E k \in DOMAIN forms :
              /\ Len(cfg.WRITE_MAP[i][2]) > Len(k)
              /\ SubSeq(cfg.WRITE_MAP[i][2], 1, Len(k) + 1) = k \o <<Sep>>
       /\ write_rvars(forms, data).err # "KeyError"
  /\ (pc = "idle" /\ IsWriteRvarsWithForms /\ last.out = "ok") =>
       \A k \in DOMAIN forms \ DOMAIN prev :
         \A r \in DOMAIN FormWriteMap(k) \cap DOMAIN arg :
           /\ FormWriteMap(k)[r] \in DOMAIN forms[k].fields
           /\ forms[k].fields[FormWriteMap(k)[r]] = arg[r]

\* the call created form A and the per-form write reached it
C4_Witness ==
  /\ pc = "idle"
  /\ IsWriteRvarsWithForms
  /\ last.out = "ok"
  /\ A \notin DOMAIN prev
  /\ A \in DOMAIN forms
  /\ "wa" \in DOMAIN arg

\* C5: ensure_written_forms_available called again right after a successful
\* call succeeds and changes no held form: same ids, same objects, same
\* field values, and no new form object.
C5_EnsureIdempotent ==
  (last.op = "ensure_written_forms_available" /\ last.out = "ok") =>
    LET again == ensure_written_forms_available(forms, nextOid)
    IN  /\ again.err = "ok"
        /\ again.forms = forms
        /\ again.oid = nextOid

\* the first call created a form next to a held form that has a field
C5_Witness ==
  /\ last.op = "ensure_written_forms_available"
  /\ last.out = "ok"
  /\ DOMAIN forms # DOMAIN prev
  /\ \E k \in DOMAIN prev : ~is_empty(prev[k])

\* the composite keys the last call split, and those _read_store gives
ProcessedKeys ==
  (IF last.op = "_write_store"
   THEN {arg[i][1] : i \in 1..Len(arg)} ELSE {})
  \cup (IF last.op = "fill_inputs"
        THEN {cfg.READ_MAP[i][2] : i \in 1..Len(cfg.READ_MAP)} ELSE {})
  \cup (IF last.op = "ensure_written_forms_available"
        THEN {cfg.WRITE_MAP[i][2] : i \in 1..Len(cfg.WRITE_MAP)} ELSE {})
  \cup DOMAIN _read_store(forms)

C7_Original ==
  last.op = "round_trip" => (last.out = "ok" /\ forms = prev)

\* C7 amended: in any Filing state in which no held form's id or field key
\* contains the separator, _write_store(_read_store()) completes without
\* error and leaves the held forms and every field mapping as they were.
C7_RoundTrip ==
  (/\ last.op = "round_trip"
   /\ \A p \in FieldPairs(prev) : NumSep(p[1]) = 0 /\ NumSep(p[2]) = 0)
    => (last.out = "ok" /\ forms = prev)

\* the round trip went through two forms that both hold fields
C7_Witness ==
  /\ last.op = "round_trip"
  /\ last.out = "ok"
  /\ DOMAIN forms = {A, B}
  /\ \A k \in DOMAIN forms : ~is_empty(forms[k])

\* C8: after drop_empty_forms the held forms are exactly the forms held
\* before whose is_empty was false, each unaltered.
C8_DropsExactlyEmpty ==
  last.op = "drop_empty_forms" =>
    /\ DOMAIN forms = {k \in DOMAIN prev : ~is_empty(prev[k])}
    /\ \A k \in DOMAIN forms : forms[k] = prev[k]

\* one empty form was dropped and one non-empty form was kept
C8_Witness ==
  /\ last.op = "drop_empty_forms"
  /\ Cardinality(DOMAIN prev) = 2
  /\ Cardinality(DOMAIN forms) = 1

\* the (form id, field) pairs the filing types of this model declare to read
DeclaredRead ==
  IF cfg = WellFormed THEN {<<A, y>>, <<B, x>>}
  ELSE IF cfg = Unregistered THEN {<<C, x>>}
  ELSE {}

\* C9: fill_inputs sets to "0" exactly the declared read fields of the held
\* forms: each such field is "0" afterwards, every other field keeps its
\* value, no field appears otherwise, and the held forms are the same.
C9_FillsExactlyDeclared ==
  last.op = "fill_inputs" =>
    IF cfg = Malformed
    THEN last.out = "ValueError" /\ forms = prev
    ELSE /\ last.out = "ok"
         /\ DOMAIN forms = DOMAIN prev
         /\ \A k \in DOMAIN forms :
              /\ forms[k].oid = prev[k].oid
              /\ DOMAIN forms[k].fields =
                   DOMAIN prev[k].fields
                     \cup {p[2] : p \in {q \in DeclaredRead : q[1] = k}}
              /\ \A f \in DOMAIN forms[k].fields :
                   forms[k].fields[f] =
                     IF <<k, f>> \in DeclaredRead THEN V0
                     ELSE prev[k].fields[f]

\* form A got its declared field y set next to its own field x, and the
\* declared form B, not held, was not created
C9_Witness ==
  /\ last.op = "fill_inputs"
  /\ cfg = WellFormed
  /\ DOMAIN forms = {A}
  /\ x \in DOMAIN forms[A].fields
  /\ forms[A].fields[x] = V7
  /\ y \notin DOMAIN prev[A].fields

\* the decimal text of the filer ids and years of this model
DecimalText(n) ==
  IF n = 7 THEN <<"7">>
  ELSE IF n = 12 THEN <<"1", "2">>
  ELSE IF n = 2013 THEN <<"2", "0", "1", "3">>
  ELSE <<"2", "0", "1", "4">>

\* C10: read_rvars() maps the filer-id rvar to str(filer_id), the filing-year
\* rvar to str(year) and the weight rvar to "1", whatever the base mapper
\* gave under those names, keeps every other rvar of the base mapper, and
\* leaves the forms as they were.
C10_ReservedRvars ==
  last.op = "read_rvars" =>
    /\ ReservedRvars \subseteq DOMAIN ret
    /\ ret[FILER_ID_RVAR] = DecimalText(filer_id)
    /\ ret[FILING_YEAR_RVAR] = DecimalText(year)
    /\ ret[WEIGHT_RVAR] = <<"1">>
    /\ \A r \in DOMAIN BaseReadRvars(forms) \ ReservedRvars :
         r \in DOMAIN ret /\ ret[r] = BaseReadRvars(forms)[r]
    /\ DOMAIN ret = DOMAIN BaseReadRvars(forms) \cup ReservedRvars
    /\ forms = prev

\* the base mapper gave a value under the filer-id rvar, and another rvar
C10_Witness ==
  /\ last.op = "read_rvars"
  /\ FILER_ID_RVAR \in DOMAIN BaseReadRvars(forms)
  /\ BaseReadRvars(forms)[FILER_ID_RVAR] # DecimalText(filer_id)
  /\ "r1" \in DOMAIN ret

====
